---- MODULE Spec2Model ----
(***************************************************************************)
(* A model of backend/server.py, the HTTP backend of the AI image editor.  *)
(* The handlers are modelled from the source: the three inference          *)
(* endpoints step by step (one action per stretch of code between two      *)
(* suspension points), the other endpoints as one action each.             *)
(*                                                                         *)
(* Byte strings are sequences over 0..255, text is a sequence of           *)
(* one-character strings, a path in the upload directory is a record       *)
(* [prefix, uuid, ext], and a uuid4() draw is a fresh number.              *)
(***************************************************************************)
EXTENDS Integers, Sequences, FiniteSets, TLC

VARIABLES
    credential,         \* os.getenv("REPLICATE_API_KEY"): "absent" or "set"
    replicate_client,   \* the module-level provider client, or None
    h,                  \* the inference requests in flight: request -> frame
    files,              \* the upload directory: a set of [path, data]
    image_edits,        \* db.image_edits, in insertion order
    images,             \* db.images, in insertion order
    age_verifications,  \* db.age_verifications, in insertion order
    next_uuid,          \* the number of uuid4() draws made so far
    clock,              \* the reading datetime.utcnow() gives a new record
    request,            \* the input of the last single-step handler
    response            \* the response of the last single-step handler

vars == <<credential, replicate_client, h, files, image_edits, images,
          age_verifications, next_uuid, clock, request, response>>

None == [endpoint |-> "none"]

(***************************************************************************)
(* Bounds of the model.                                                    *)
(***************************************************************************)
NumReq == 2
MaxLen == 4
MaxUploads == 2
MaxVerifications == 2
MaxDim == 3
MaxRects == 2
MaxEdits == 52

\* .limit(50).to_list(50)
HistoryLimit == 50

(***************************************************************************)
(* Text.                                                                   *)
(***************************************************************************)
Alphabet ==
    <<"A","B","C","D","E","F","G","H","I","J","K","L","M","N","O","P",
      "Q","R","S","T","U","V","W","X","Y","Z","a","b","c","d","e","f",
      "g","h","i","j","k","l","m","n","o","p","q","r","s","t","u","v",
      "w","x","y","z","0","1","2","3","4","5","6","7","8","9","+","/">>

Pad == "="

IsAlpha(c) == \E i \in 1..64 : Alphabet[i] = c

B64Index(c) == (CHOOSE i \in 1..64 : Alphabet[i] = c) - 1

\* A prefix test that stops at the end of the shorter text.
StartsWithLoose(s, p) ==
    \A i \in 1..Len(p) : i <= Len(s) => s[i] = p[i]

\* s.startswith(p)
StartsWith(s, p) ==
    /\ Len(s) >= Len(p)
    /\ \A i \in 1..Len(p) : s[i] = p[i]

(***************************************************************************)
(* base64, as the standard library computes it.                            *)
(***************************************************************************)
\* An encoder that leaves the padding of a short last group out.
EncodeGroupUnpadded(g) ==
    LET b1 == g[1]
        b2 == IF Len(g) >= 2 THEN g[2] ELSE 0
        n  == b1 * 65536 + b2 * 256
    IN  IF Len(g) >= 3
        THEN << Alphabet[(n \div 262144) + 1],
                Alphabet[((n \div 4096) % 64) + 1],
                Alphabet[(((n + g[3]) \div 64) % 64) + 1],
                Alphabet[((n + g[3]) % 64) + 1] >>
        ELSE IF Len(g) = 2
        THEN << Alphabet[(n \div 262144) + 1],
                Alphabet[((n \div 4096) % 64) + 1],
                Alphabet[((n \div 64) % 64) + 1] >>
        ELSE << Alphabet[(n \div 262144) + 1],
                Alphabet[((n \div 4096) % 64) + 1] >>

\* base64.b64encode on one group of up to three bytes.
EncodeGroup(g) ==
    LET b1 == g[1]
        b2 == IF Len(g) >= 2 THEN g[2] ELSE 0
        b3 == IF Len(g) >= 3 THEN g[3] ELSE 0
        n  == b1 * 65536 + b2 * 256 + b3
    IN  << Alphabet[(n \div 262144) + 1],
           Alphabet[((n \div 4096) % 64) + 1],
           IF Len(g) >= 2 THEN Alphabet[((n \div 64) % 64) + 1] ELSE Pad,
           IF Len(g) >= 3 THEN Alphabet[(n % 64) + 1] ELSE Pad >>

RECURSIVE b64encode(_)
b64encode(s) ==
    IF Len(s) = 0 THEN <<>>
    ELSE IF Len(s) <= 3 THEN EncodeGroup(s)
    ELSE EncodeGroup(SubSeq(s, 1, 3)) \o b64encode(SubSeq(s, 4, Len(s)))

\* binascii.a2b_base64 in its default, non-strict mode: characters outside
\* the alphabet are skipped, a completed run of padding ends the scan, and
\* a group left open at the end of the text is an error.
RECURSIVE B64Scan(_, _, _, _, _, _)
B64Scan(s, i, quad, pads, left, out) ==
    IF i > Len(s)
    THEN IF quad = 0 THEN [ok |-> TRUE, data |-> out]
         ELSE IF quad = 1
              THEN [ok |-> FALSE, msg |-> "Invalid base64-encoded string"]
              ELSE [ok |-> FALSE, msg |-> "Incorrect padding"]
    ELSE IF s[i] = Pad
    THEN IF quad >= 2 /\ quad + pads + 1 >= 4
         THEN [ok |-> TRUE, data |-> out]
         ELSE B64Scan(s, i + 1, quad, IF quad >= 2 THEN pads + 1 ELSE pads,
                      left, out)
    ELSE IF ~IsAlpha(s[i])
    THEN B64Scan(s, i + 1, quad, pads, left, out)
    ELSE LET v == B64Index(s[i]) IN
         CASE quad = 0 -> B64Scan(s, i + 1, 1, 0, v, out)
           [] quad = 1 -> B64Scan(s, i + 1, 2, 0, v % 16,
                                  Append(out, left * 4 + (v \div 16)))
           [] quad = 2 -> B64Scan(s, i + 1, 3, 0, v % 4,
                                  Append(out, left * 16 + (v \div 4)))
           [] OTHER    -> B64Scan(s, i + 1, 0, 0, 0,
                                  Append(out, left * 64 + v))

b64decode(s) == B64Scan(s, 1, 0, 0, 0, <<>>)

ReadFile(fs, p) == (CHOOSE f \in fs : f.path = p).data

FileExists(fs, p) == \E f \in fs : f.path = p

Unlink(fs, p) == {f \in fs : f.path # p}

\* image_to_base64: a path is read from the upload directory, bytes are
\* encoded as they are.
image_to_base64(image_path_or_bytes) ==
    IF image_path_or_bytes.kind = "path"
    THEN b64encode(ReadFile(files, image_path_or_bytes.path))
    ELSE b64encode(image_path_or_bytes.data)

\* A generator that returns the same value at every draw.
Uuid4Same(r, k) == [req |-> 0, n |-> 0]

\* uuid4(): the value request r (0: an upload) draws for its k-th purpose.
\* Two draws never return the same value.
Uuid4(r, k) == [req |-> r, n |-> k]

\* The detail of a handler's own error response: the handler's prefix and
\* the message of the failure it caught.
Failed(prefix, msg) == [status |-> 500, detail |-> <<prefix, msg>>]

NotConfigured ==
    [status |-> 500,
     detail |-> <<"Replicate API not configured. Please set REPLICATE_API_KEY.", "">>]

\* An exception that leaves a handler: the framework answers with its own
\* plain 500, which carries no message of the failure.
Uncaught == [status |-> 500, detail |-> <<"Internal Server Error", "">>]

(***************************************************************************)
(* The inference endpoints: remove-object, add-object, text-guided-edit.   *)
(***************************************************************************)
Req == 1..NumReq

NoUuid == [req |-> -1, n |-> -1]

NoPath == [prefix |-> "", uuid |-> NoUuid, ext |-> <<>>]

NoUrl == [model |-> "", image |-> <<>>, mask |-> <<>>]

NoDoc == [id |-> NoUuid, operation_type |-> "", prompt |-> "", timestamp |-> -1,
          result_image_base64 |-> <<>>, processing_time |-> ""]

NoResponse == [status |-> 0, detail |-> <<"", "">>]

NoText == [present |-> FALSE, text |-> <<>>]

Text(s) == [present |-> TRUE, text |-> s]

Png == <<"p", "n", "g">>

TempImage(u) == [prefix |-> "temp_image_", uuid |-> u, ext |-> Png]

TempMask(u) == [prefix |-> "temp_mask_", uuid |-> u, ext |-> Png]

Idle ==
    [kind |-> "none", pc |-> "idle",
     image_base64 |-> <<>>, mask_base64 |-> NoText, prompt |-> "",
     image_data |-> <<>>, mask_data |-> <<>>,
     image_path |-> NoPath, mask_path |-> NoPath, model |-> "",
     result_url |-> NoUrl, doc |-> NoDoc, response |-> NoResponse,
     \* what the world saw of this request
     provider_calls |-> 0, input_mask |-> FALSE,
     downloads |-> 0, download_ok |-> FALSE,
     inserts |-> 0,
     created |-> {}, foreign |-> FALSE]

\* A file of the upload directory remembers the request that created it
\* (0: the upload endpoint).
Owner(fs, p) == (CHOOSE f \in fs : f.path = p).owner

Create(fs, p, d, r) ==
    {f \in fs : f.path # p} \cup {[path |-> p, data |-> d, owner |-> r]}

Foreign(fs, p, r) == FileExists(fs, p) /\ Owner(fs, p) # r

\* What the provider computes is a function of the model and the input it
\* was sent; the result URL names that artefact.
ModelCode(model) ==
    CASE model = "zsxkib/flux-dev-inpainting"     -> 1
      [] model = "black-forest-labs/flux-dev"     -> 2
      [] OTHER                                    -> 3

Artifact(url) == <<ModelCode(url.model)>> \o url.image \o url.mask

\* (datetime.utcnow() - start_time).total_seconds(): a duration the model
\* does not measure.
Elapsed == "elapsed"

\* raise HTTPException(status_code=500, detail=f"<prefix>: {str(e)}")
Raise(r, prefix, msg) ==
    h' = [h EXCEPT ![r].pc = "done", ![r].response = Failed(prefix, msg)]

\* The guard all three endpoints start with.
Gate(r, kind) ==
    /\ h[r].pc = "idle"
    /\ replicate_client = "None"
    /\ h' = [h EXCEPT ![r].kind = kind, ![r].pc = "done",
                      ![r].response = NotConfigured]
    /\ UNCHANGED <<files, next_uuid, clock, image_edits>>

\* async with aiofiles.open(path, 'wb') as f: await f.write(data)
\* The open creates the file; either call may fail.
WriteTemp(r, path, data, next, prefix) ==
    \E o \in {"ok", "open_fail", "write_fail"} :
        /\ files' = IF o = "open_fail" THEN files
                    ELSE Create(files, path, IF o = "ok" THEN data ELSE <<>>, r)
        /\ LET seen == IF o = "open_fail" THEN h[r].created
                       ELSE h[r].created \cup {path}
               alien == h[r].foreign \/ (o # "open_fail" /\ Foreign(files, path, r))
           IN  IF o = "ok"
               THEN h' = [h EXCEPT ![r].pc = next, ![r].created = seen,
                                   ![r].foreign = alien]
               ELSE h' = [h EXCEPT ![r].pc = "done", ![r].created = seen,
                                   ![r].foreign = alien,
                                   ![r].response = Failed(prefix, "OSError")]

\* output = replicate_client.run(model, input={"image": open(image_path, "rb"),
\* ["mask": open(mask_path, "rb"),] ...}); result_url = output[0] or output.
ProviderRun(r, model, prefix) ==
    /\ h[r].pc = "run"
    /\ LET masked == h[r].mask_path # NoPath
           there  == /\ FileExists(files, h[r].image_path)
                     /\ masked => FileExists(files, h[r].mask_path)
           alien  == \/ h[r].foreign
                     \/ Foreign(files, h[r].image_path, r)
                     \/ masked /\ Foreign(files, h[r].mask_path, r)
       IN  IF ~there
           THEN h' = [h EXCEPT ![r].pc = "done", ![r].foreign = alien,
                               ![r].response = Failed(prefix, "FileNotFoundError")]
           \* the provider refuses a call that carries no token
           ELSE \E ok \in (IF credential = "set" THEN BOOLEAN ELSE {FALSE}),
                   listed \in BOOLEAN :
                LET url == [model |-> model,
                            image |-> ReadFile(files, h[r].image_path),
                            mask  |-> IF masked
                                      THEN ReadFile(files, h[r].mask_path)
                                      ELSE <<>>]
                    output == IF listed THEN <<url>> ELSE url
                    result_url == IF listed THEN output[1] ELSE output
                IN  IF ok
                    THEN h' = [h EXCEPT ![r].pc = "download",
                                        ![r].foreign = alien,
                                        ![r].model = model,
                                        ![r].input_mask = masked,
                                        ![r].result_url = result_url,
                                        ![r].provider_calls = @ + 1]
                    ELSE h' = [h EXCEPT ![r].pc = "done",
                                        ![r].foreign = alien,
                                        ![r].model = model,
                                        ![r].input_mask = masked,
                                        ![r].provider_calls = @ + 1,
                                        ![r].response = Failed(prefix, "ReplicateError")]
    /\ UNCHANGED <<files, next_uuid, clock, image_edits>>

\* A download that does not check the status of the answer: the body of an
\* error page is taken for the result.
DownloadUnchecked(url, status_ok) ==
    [ok |-> TRUE,
     data |-> b64encode(IF status_ok THEN Artifact(url) ELSE <<52, 48, 52>>)]

\* download_image_as_base64: GET the URL, raise on an error status, encode
\* the body.
download_image_as_base64(url, status_ok) ==
    IF status_ok
    THEN [ok |-> TRUE, data |-> b64encode(Artifact(url))]
    ELSE [ok |-> FALSE, msg |-> "HTTPStatusError"]

\* result_base64 = await download_image_as_base64(result_url); then the
\* processing time, the edit record (its id and timestamp drawn now) and the
\* response are built.
DownloadResult(r, operation_type, prefix) ==
    /\ h[r].pc = "download"
    /\ \E status_ok \in BOOLEAN :
        LET result_base64 == download_image_as_base64(h[r].result_url, status_ok)
            processing_time == Elapsed
            edit_record == [id |-> Uuid4(r, 3),
                            operation_type |-> operation_type,
                            prompt |-> h[r].prompt,
                            timestamp |-> clock]
        IN  IF result_base64.ok
            THEN /\ h' = [h EXCEPT
                            ![r].pc = "insert",
                            ![r].downloads = @ + 1,
                            ![r].download_ok = status_ok,
                            ![r].doc =
                               [id |-> edit_record.id,
                                operation_type |-> operation_type,
                                prompt |-> edit_record.prompt,
                                timestamp |-> edit_record.timestamp,
                                result_image_base64 |-> result_base64.data,
                                processing_time |-> processing_time]]
                 /\ clock' = clock + 1
            ELSE /\ h' = [h EXCEPT ![r].pc = "done", ![r].downloads = @ + 1,
                                   ![r].response = Failed(prefix, result_base64.msg)]
                 /\ UNCHANGED clock
    /\ UNCHANGED <<files, next_uuid, image_edits>>

\* The store and the frame once the documents are inserted: the temp files
\* are unlinked (missing_ok) and the response is returned.
Inserted(r, docs) ==
    /\ image_edits' = image_edits \o docs
    /\ files' = Unlink(Unlink(files, h[r].image_path), h[r].mask_path)
    /\ h' = [h EXCEPT
               ![r].pc = "done", ![r].inserts = @ + Len(docs),
               ![r].foreign = \/ @
                              \/ Foreign(files, h[r].image_path, r)
                              \/ Foreign(files, h[r].mask_path, r),
               ![r].response =
                  [status |-> 200,
                   id |-> h[r].doc.id,
                   result_image_base64 |-> h[r].doc.result_image_base64,
                   operation_type |-> h[r].doc.operation_type,
                   processing_time |-> h[r].doc.processing_time]]

\* The edit record and the response stored as two documents, not as one.
InsertTwoDocuments(r, prefix) ==
    /\ h[r].pc = "insert"
    /\ \E ok \in BOOLEAN :
        IF ok
        THEN Inserted(r, <<h[r].doc, h[r].doc>>)
        ELSE /\ Raise(r, prefix, "PyMongoError")
             /\ UNCHANGED <<files, image_edits>>
    /\ UNCHANGED <<next_uuid, clock>>

\* await db.image_edits.insert_one({**edit_record.dict(), **response.dict()}),
\* then the clean-up and the return.
InsertAndCleanUp(r, prefix) ==
    /\ h[r].pc = "insert"
    /\ \E ok \in BOOLEAN :
        IF ok
        THEN Inserted(r, <<h[r].doc>>)
        ELSE /\ Raise(r, prefix, "PyMongoError")
             /\ UNCHANGED <<files, image_edits>>
    /\ UNCHANGED <<next_uuid, clock>>

\* The request bodies the model sends: a well-formed and a malformed image
\* payload, and for the mask a well-formed one, a malformed one, the empty
\* string and no field at all.
ImageInputs(r) == { b64encode(<<r, 255>>), <<"A">> }

MaskInputs(r) == { Text(b64encode(<<100 + r>>)), Text(<<"A", "B", "C">>) }

OptionalMaskInputs(r) == MaskInputs(r) \cup { Text(<<>>), NoText }

outside == <<credential, replicate_client, images, age_verifications,
             request, response>>

\* POST /remove-object
remove_object(r) ==
    LET prefix == "Failed to remove object" IN
    /\ UNCHANGED outside
    /\ \/ Gate(r, "remove_object")
       \/ /\ h[r].pc = "idle"
          /\ replicate_client # "None"
          /\ \E image_base64 \in ImageInputs(r), mask_base64 \in MaskInputs(r) :
             LET image_data == b64decode(image_base64)
                 mask_data  == b64decode(mask_base64.text)
                 frame == [h[r] EXCEPT !.kind = "remove_object",
                                       !.image_base64 = image_base64,
                                       !.mask_base64 = mask_base64,
                                       !.prompt = "remove the selected object"]
             IN  IF ~image_data.ok
                    THEN h' = [h EXCEPT ![r] = [frame EXCEPT !.pc = "done",
                                     !.response = Failed(prefix, image_data.msg)]]
                    ELSE IF ~mask_data.ok
                    THEN h' = [h EXCEPT ![r] = [frame EXCEPT !.pc = "done",
                                     !.response = Failed(prefix, mask_data.msg)]]
                    ELSE h' = [h EXCEPT ![r] = [frame EXCEPT
                                     !.pc = "write_image",
                                     !.image_data = image_data.data,
                                     !.mask_data = mask_data.data,
                                     !.image_path = TempImage(Uuid4(r, 1)),
                                     !.mask_path = TempMask(Uuid4(r, 2))]]
          /\ UNCHANGED <<files, next_uuid, clock, image_edits>>
       \/ /\ h[r].kind = "remove_object"
          /\ \/ /\ h[r].pc = "write_image"
                /\ WriteTemp(r, h[r].image_path, h[r].image_data, "write_mask", prefix)
                /\ UNCHANGED <<next_uuid, clock, image_edits>>
             \/ /\ h[r].pc = "write_mask"
                /\ WriteTemp(r, h[r].mask_path, h[r].mask_data, "run", prefix)
                /\ UNCHANGED <<next_uuid, clock, image_edits>>
             \/ ProviderRun(r, "zsxkib/flux-dev-inpainting", prefix)
             \/ DownloadResult(r, "remove_object", prefix)
             \/ InsertAndCleanUp(r, prefix)

\* A test that takes every field that was sent for a mask, the empty string
\* included.
TruthyWhenSent(mask_base64) == mask_base64.present

\* if mask_base64: a missing field (None) and the empty string are falsy.
Truthy(mask_base64) == mask_base64.present /\ mask_base64.text # <<>>

\* POST /add-object
add_object(r) ==
    LET prefix == "Failed to add object" IN
    /\ UNCHANGED outside
    /\ \/ Gate(r, "add_object")
       \/ /\ h[r].pc = "idle"
          /\ replicate_client # "None"
          /\ \E image_base64 \in ImageInputs(r),
                mask_base64 \in OptionalMaskInputs(r) :
             LET image_data == b64decode(image_base64)
                 frame == [h[r] EXCEPT !.kind = "add_object",
                                       !.image_base64 = image_base64,
                                       !.mask_base64 = mask_base64,
                                       !.prompt = "add a red hat"]
             IN  IF ~image_data.ok
                    THEN h' = [h EXCEPT ![r] = [frame EXCEPT !.pc = "done",
                                     !.response = Failed(prefix, image_data.msg)]]
                    ELSE h' = [h EXCEPT ![r] = [frame EXCEPT
                                     !.pc = "write_image",
                                     !.image_data = image_data.data,
                                     !.image_path = TempImage(Uuid4(r, 1))]]
          /\ UNCHANGED <<files, next_uuid, clock, image_edits>>
       \/ /\ h[r].kind = "add_object"
          /\ \/ /\ h[r].pc = "write_image"
                /\ WriteTemp(r, h[r].image_path, h[r].image_data, "choose", prefix)
                /\ UNCHANGED <<next_uuid, clock, image_edits>>
             \/ /\ h[r].pc = "choose"
                /\ IF Truthy(h[r].mask_base64)
                   THEN LET mask_data == b64decode(h[r].mask_base64.text) IN
                        IF ~mask_data.ok
                        THEN /\ Raise(r, prefix, mask_data.msg)
                            \* model is the inpainting one once the mask is written
                        ELSE h' = [h EXCEPT
                                     ![r].pc = "write_mask",
                                     ![r].mask_data = mask_data.data,
                                     ![r].mask_path = TempMask(Uuid4(r, 2)),
                                     ![r].model = "zsxkib/flux-dev-inpainting"]
                   ELSE h' = [h EXCEPT ![r].pc = "run",
                                       ![r].model = "black-forest-labs/flux-dev"]
                /\ UNCHANGED <<files, next_uuid, clock, image_edits>>
             \/ /\ h[r].pc = "write_mask"
                /\ WriteTemp(r, h[r].mask_path, h[r].mask_data, "run", prefix)
                /\ UNCHANGED <<next_uuid, clock, image_edits>>
             \/ ProviderRun(r, h[r].model, prefix)
             \/ DownloadResult(r, "add_object", prefix)
             \/ InsertAndCleanUp(r, prefix)

\* POST /text-guided-edit
text_guided_edit(r) ==
    LET prefix == "Failed to perform text-guided edit" IN
    /\ UNCHANGED outside
    /\ \/ Gate(r, "text_guided_edit")
       \/ /\ h[r].pc = "idle"
          /\ replicate_client # "None"
          /\ \E image_base64 \in ImageInputs(r) :
             LET image_data == b64decode(image_base64)
                 frame == [h[r] EXCEPT !.kind = "text_guided_edit",
                                       !.image_base64 = image_base64,
                                       !.prompt = "make it snowy"]
             IN  IF ~image_data.ok
                    THEN h' = [h EXCEPT ![r] = [frame EXCEPT !.pc = "done",
                                     !.response = Failed(prefix, image_data.msg)]]
                    ELSE h' = [h EXCEPT ![r] = [frame EXCEPT
                                     !.pc = "write_image",
                                     !.image_data = image_data.data,
                                     !.image_path = TempImage(Uuid4(r, 1))]]
          /\ UNCHANGED <<files, next_uuid, clock, image_edits>>
       \/ /\ h[r].kind = "text_guided_edit"
          /\ \/ /\ h[r].pc = "write_image"
                /\ WriteTemp(r, h[r].image_path, h[r].image_data, "run", prefix)
                /\ UNCHANGED <<next_uuid, clock, image_edits>>
             \/ ProviderRun(r, "timothybrooks/instruct-pix2pix", prefix)
             \/ DownloadResult(r, "text_guided_edit", prefix)
             \/ InsertAndCleanUp(r, prefix)

Init ==
    /\ credential \in {"absent", "set"}
    \* replicate.Client(api_token=os.getenv(...)) either returns a client or
    \* raises; only a raise leaves replicate_client None.
    /\ replicate_client \in {"None", "Client"}
    /\ h = [r \in Req |-> Idle]
    /\ files = {}
    /\ image_edits = <<>>
    /\ images = <<>>
    /\ age_verifications = <<>>
    /\ next_uuid = 0
    /\ clock = 0
    /\ request = None
    /\ response = NoResponse

Next == \E r \in Req : remove_object(r) \/ add_object(r) \/ text_guided_edit(r)

Spec == Init /\ [][Next]_vars

(***************************************************************************)
(* Properties of the inference endpoints (checked under Spec).             *)
(***************************************************************************)
Done(r) == h[r].pc = "done"

Succeeded(r) == Done(r) /\ h[r].response.status = 200

Errored(r) == Done(r) /\ h[r].response.status # 200

FailedWith(r, msg) == Errored(r) /\ h[r].response.detail[2] = msg

\* The positions in the edit-record store of the records request r wrote.
RecordsOf(r) == {i \in DOMAIN image_edits : image_edits[i].id = h[r].doc.id}

\* What the provider was asked by request r, had it been sent r's own input.
OwnUrl(r) == [model |-> h[r].model, image |-> h[r].image_data,
              mask |-> h[r].mask_data]

\* C1: a failed edit never persists anything. A record of a request is in
\* the edit-record store only if the provider call returned and the result
\* was downloaded (the record holds the downloaded artefact), and a request
\* that ended in an error, whatever failed, has no record in the store.
C1_NoPartialPersist ==
    \A r \in Req :
        /\ h[r].inserts > 0 =>
              /\ h[r].provider_calls = 1
              /\ h[r].downloads = 1
              /\ h[r].result_url # NoUrl
              /\ h[r].download_ok
              /\ RecordsOf(r) # {}
              /\ \A i \in RecordsOf(r) :
                    image_edits[i].result_image_base64 =
                        b64encode(Artifact(h[r].result_url))
        /\ h[r].inserts = 0 => RecordsOf(r) = {}
        /\ Errored(r) => h[r].inserts = 0 /\ RecordsOf(r) = {}

\* C1's case: a request whose download failed has ended while the store
\* already holds another request's record.
C1_Witness ==
    \E r \in Req :
        /\ FailedWith(r, "HTTPStatusError")
        /\ image_edits # <<>>
        /\ RecordsOf(r) = {}

\* C2: with the provider credential absent at process start, every call of
\* an inference endpoint answers 'not configured' and makes no provider
\* call, no download, no temp-file write and no store write.
C2_GatedByCredential ==
    credential = "absent" =>
        \A r \in Req :
            h[r].pc # "idle" =>
                /\ Done(r)
                /\ h[r].response.status = 500
                /\ h[r].response.detail = NotConfigured.detail
                /\ h[r].provider_calls = 0
                /\ h[r].downloads = 0
                /\ h[r].inserts = 0
                /\ h[r].created = {}

\* C3: once a request has finished, on whatever path, none of the temp
\* files it created is left in the upload directory.
C3_TempFilesCleanedUp ==
    \A r \in Req :
        Done(r) => \A p \in h[r].created : ~FileExists(files, p)

\* C6: a request invokes the provider at most once and inserts at most one
\* edit record; a request that returned success invoked the provider once,
\* downloaded once and inserted one record, whose id and operation kind are
\* those of the response.
C6_OneCallOneWrite ==
    \A r \in Req :
        /\ h[r].provider_calls <= 1
        /\ h[r].downloads <= 1
        /\ h[r].inserts <= 1
        /\ Cardinality(RecordsOf(r)) <= 1
        /\ Succeeded(r) =>
              /\ h[r].provider_calls = 1
              /\ h[r].downloads = 1
              /\ h[r].inserts = 1
              /\ Cardinality({i \in DOMAIN image_edits :
                                image_edits[i].id = h[r].response.id}) = 1
              /\ \A i \in DOMAIN image_edits :
                    image_edits[i].id = h[r].response.id =>
                        /\ image_edits[i].operation_type =
                              h[r].response.operation_type
                        /\ image_edits[i].operation_type = h[r].kind

\* C6's case: a request has returned success.
C6_Witness ==
    \E r \in Req : Succeeded(r) /\ h[r].kind = "add_object" /\ Len(image_edits) = 2

\* C8: two requests that both succeed, however their steps interleave,
\* leave two distinct edit records in the store, each response carries the
\* result computed from its own request's input, and neither request has
\* read, overwritten or deleted a temp file the other created.
C8_ConcurrentEditsIndependent ==
    \A r1 \in Req : \A r2 \in Req \ {r1} :
        (Succeeded(r1) /\ Succeeded(r2)) =>
            /\ h[r1].response.id # h[r2].response.id
            /\ Cardinality(RecordsOf(r1)) = 1
            /\ Cardinality(RecordsOf(r2)) = 1
            /\ RecordsOf(r1) \cap RecordsOf(r2) = {}
            /\ h[r1].response.result_image_base64 =
                  b64encode(Artifact(OwnUrl(r1)))
            /\ \A i \in RecordsOf(r1) :
                  image_edits[i].result_image_base64 =
                      h[r1].response.result_image_base64
            /\ ~h[r1].foreign

\* C8's case: two requests overlapped (the one whose record was built first
\* inserted it last) and both succeeded.
C8_Witness ==
    \E r1 \in Req : \E r2 \in Req \ {r1} :
        /\ Succeeded(r1) /\ Succeeded(r2)
        /\ \E i, j \in DOMAIN image_edits :
              /\ i < j
              /\ image_edits[i].id = h[r1].response.id
              /\ image_edits[j].id = h[r2].response.id
              /\ image_edits[i].timestamp > image_edits[j].timestamp

\* The request carries a mask: the field was sent and is not the empty string.
CarriesMask(r) == h[r].mask_base64.present /\ h[r].mask_base64.text # <<>>

\* The temp mask files the request opened for writing.
MaskFilesOf(r) == {p \in h[r].created : p.prefix = "temp_mask_"}

\* C11: whenever add-object invokes the provider, the model it invokes is the
\* inpainting one, with a mask in its input and a temp mask file written, if
\* and only if the request carries a mask; without a mask (field missing or
\* empty string) it is the plain generation model, with no mask in its input,
\* and the request writes no temp mask file at any point; every record the
\* request stores, and the response it returns, has operation kind add_object.
C11_ModelChosenByMask ==
    \A r \in Req :
        h[r].kind = "add_object" =>
            /\ h[r].provider_calls > 0 =>
                  IF CarriesMask(r)
                  THEN /\ h[r].model = "zsxkib/flux-dev-inpainting"
                       /\ h[r].input_mask
                       /\ MaskFilesOf(r) = {h[r].mask_path}
                  ELSE /\ h[r].model = "black-forest-labs/flux-dev"
                       /\ ~h[r].input_mask
            /\ ~CarriesMask(r) => MaskFilesOf(r) = {}
            /\ \A i \in RecordsOf(r) : image_edits[i].operation_type = "add_object"
            /\ Succeeded(r) => h[r].response.operation_type = "add_object"

\* C11's case: one add-object request without a mask (the empty string) and
\* one with a mask both invoked the provider and stored their record.
C11_Witness ==
    \E r1 \in Req : \E r2 \in Req \ {r1} :
        /\ h[r1].kind = "add_object" /\ h[r2].kind = "add_object"
        /\ Succeeded(r1) /\ Succeeded(r2)
        /\ RecordsOf(r1) # {} /\ RecordsOf(r2) # {}
        /\ h[r1].mask_base64 = Text(<<>>)
        /\ CarriesMask(r2) /\ h[r2].input_mask

(***************************************************************************)
(* The single-step endpoints: upload-image and age-verify.                 *)
(***************************************************************************)
ImagePrefix == <<"i", "m", "a", "g", "e", "/">>

\* '.' in filename
HasDot(name) == \E i \in 1..Len(name) : name[i] = "."

\* filename.split('.')[-1]: what follows the last dot.
LastPart(name) ==
    LET last == CHOOSE i \in 1..Len(name) :
                    /\ name[i] = "."
                    /\ \A j \in (i + 1)..Len(name) : name[j] # "."
    IN  SubSeq(name, last + 1, Len(name))

inference == <<h, image_edits, credential, replicate_client>>

\* POST /upload-image
upload_image(file) ==
    /\ next_uuid < MaxUploads
    /\ request' = [endpoint |-> "upload-image", file |-> file]
    /\ UNCHANGED <<inference, age_verifications>>
    /\ IF ~file.content_type.present
       \* None has no startswith: the AttributeError leaves the handler
       THEN /\ response' = Uncaught
            /\ UNCHANGED <<files, images, next_uuid, clock>>
       ELSE IF ~StartsWith(file.content_type.text, ImagePrefix)
       THEN /\ response' = [status |-> 400,
                            detail |-> <<"File must be an image", "">>]
            /\ UNCHANGED <<files, images, next_uuid, clock>>
       ELSE
         LET file_id == Uuid4(0, next_uuid)
             file_extension == IF HasDot(file.filename)
                               THEN LastPart(file.filename)
                               ELSE <<"j", "p", "g">>
             filename == [prefix |-> "", uuid |-> file_id, ext |-> file_extension]
             file_path == filename
             content == file.content
             image_base64 == image_to_base64([kind |-> "bytes", data |-> content])
             image_record == [id |-> file_id,
                              filename |-> filename,
                              original_name |-> file.filename,
                              content_type |-> file.content_type.text,
                              size |-> Len(content),
                              base64_data |-> image_base64,
                              timestamp |-> clock]
         IN  /\ next_uuid' = next_uuid + 1
             /\ \E written \in {"ok", "open_fail", "write_fail"},
                   stored \in BOOLEAN :
                  /\ files' = IF written = "open_fail" THEN files
                              ELSE Create(files, file_path,
                                          IF written = "ok" THEN content ELSE <<>>, 0)
                  /\ IF written # "ok"
                     THEN /\ response' = Uncaught
                          /\ UNCHANGED <<images, clock>>
                     ELSE IF ~stored
                     THEN /\ response' = Uncaught
                          /\ clock' = clock + 1
                          /\ UNCHANGED images
                     ELSE /\ images' = Append(images, image_record)
                          /\ clock' = clock + 1
                          /\ response' = [status |-> 200,
                                          id |-> file_id,
                                          filename |-> filename,
                                          base64 |-> image_base64,
                                          size |-> Len(content)]

\* POST /age-verify
age_verify(verification) ==
    /\ Len(age_verifications) < MaxVerifications
    /\ request' = [endpoint |-> "age-verify", verification |-> verification]
    /\ UNCHANGED <<inference, files, images, next_uuid, clock>>
    /\ \E stored \in BOOLEAN :
        IF stored
        THEN /\ age_verifications' =
                    Append(age_verifications,
                           [verified |-> verification.verified, timestamp |-> clock])
             /\ response' = [status |-> 200,
                             body |-> <<"verified", "Age verification completed">>]
        ELSE /\ response' = Uncaught
             /\ UNCHANGED age_verifications

ContentTypes ==
    { Text(<<"i","m","a","g","e","/","p","n","g">>),
      Text(<<"i","m","a","g","e">>),
      Text(<<"t","e","x","t","/","p","l","a","i","n">>),
      NoText }

Filenames ==
    { <<"p","h","o","t","o">>, <<"x",".","t","a","r",".","g","z">> }

UploadFiles ==
    [content_type : ContentTypes, filename : Filenames,
     content : {<<>>, <<77, 97>>}]

InitUpload ==
    /\ credential = "set"
    /\ replicate_client = "Client"
    /\ h = [r \in Req |-> Idle]
    /\ files = {}
    /\ image_edits = <<>>
    /\ images = <<>>
    /\ age_verifications = <<>>
    /\ next_uuid = 0
    /\ clock = 0
    /\ request = None
    /\ response = NoResponse

NextUpload ==
    \/ \E file \in UploadFiles : upload_image(file)
    \/ \E verified \in BOOLEAN : age_verify([verified |-> verified])

SpecUpload == InitUpload /\ [][NextUpload]_vars

(***************************************************************************)
(* Properties of upload-image (checked under SpecUpload).                  *)
(***************************************************************************)
DeclaresImage(ct) ==
    ct.present /\ Len(ct.text) >= 6 /\ SubSeq(ct.text, 1, 6) = ImagePrefix

\* C5: an upload whose declared content type does not start with "image/"
\* is answered 400 and writes no file and no image record; an upload whose
\* content type does start with "image/" and whose writes succeed inserts
\* exactly one image record, whose id and size are those of the response
\* (the size being the length of the uploaded content).
C5_UploadValidation ==
    [][ request'.endpoint = "upload-image" =>
          LET ct == request'.file.content_type IN
          /\ (ct.present /\ ~DeclaresImage(ct)) =>
                /\ response'.status = 400
                /\ files' = files
                /\ images' = images
          /\ DeclaresImage(ct) =>
                /\ response'.status \in {200, 500}
                /\ response'.status = 500 => images' = images
                /\ response'.status = 200 =>
                      /\ Len(images') = Len(images) + 1
                      /\ SubSeq(images', 1, Len(images)) = images
                      /\ images'[Len(images')].id = response'.id
                      /\ images'[Len(images')].size = response'.size
                      /\ response'.size = Len(request'.file.content)
                      /\ \A i \in 1..Len(images) : images[i].id # response'.id
      ]_vars

\* C5's case: an upload declared text/plain was refused after an earlier
\* upload had been stored.
C5_Witness ==
    /\ request.endpoint = "upload-image"
    /\ request.file.content_type = Text(<<"t","e","x","t","/","p","l","a","i","n">>)
    /\ response.status = 400
    /\ Len(images) = 1
    /\ images[1].size = 2

(***************************************************************************)
(* The codec on its own: a file is drawn, encoded from its bytes or from   *)
(* a stored copy, and uploaded.                                            *)
(***************************************************************************)
ByteSamples == {0, 1, 128, 255}

RECURSIVE BytesUpTo(_)
BytesUpTo(n) ==
    IF n = 0 THEN {<<>>}
    ELSE LET shorter == BytesUpTo(n - 1) IN
         shorter \cup {Append(s, b) : s \in {x \in shorter : Len(x) = n - 1},
                                      b \in ByteSamples}

InitCodec ==
    /\ credential \in {"set"}
    /\ replicate_client \in {"Client"}
    /\ h = [r \in Req |-> Idle]
    /\ files = {}
    /\ image_edits = <<>>
    /\ images = <<>>
    /\ age_verifications = <<>>
    /\ next_uuid = 0
    /\ clock = 0
    /\ request \in [endpoint : {"upload-image"},
                    file : [content_type : {Text(<<"i","m","a","g","e","/","p","n","g">>)},
                            filename : {<<"p","h","o","t","o">>},
                            content : BytesUpTo(MaxLen)]]
    /\ response = NoResponse

\* image_to_base64(content)
EncodeBytes ==
    /\ request.endpoint = "upload-image"
    /\ response' = [status |-> 200,
                    base64 |-> image_to_base64([kind |-> "bytes",
                                                data |-> request.file.content])]
    /\ UNCHANGED <<inference, files, images, age_verifications, next_uuid,
                   clock, request>>

\* image_to_base64(file_path)
EncodePath ==
    /\ \E f \in files :
          /\ request' = [endpoint |-> "encode-path", path |-> f.path,
                         file |-> request.file]
          /\ response' = [status |-> 200,
                          base64 |-> image_to_base64([kind |-> "path",
                                                      path |-> f.path])]
    /\ UNCHANGED <<inference, files, images, age_verifications, next_uuid, clock>>

NextCodec ==
    \/ EncodeBytes
    \/ EncodePath
    \/ request.endpoint = "upload-image" /\ upload_image(request.file)

SpecCodec == InitCodec /\ [][NextCodec]_vars

\* C10: encoding any byte sequence and decoding the result gives the bytes
\* back, the empty sequence encodes to the empty string, and the base64
\* field upload-image returns decodes to bytes of the length of the uploaded
\* file, which is the size it returns.
C10_RoundTrip ==
    response.status = 200 =>
        LET decoded == b64decode(response.base64)
            bytes == IF request.endpoint = "encode-path"
                     THEN ReadFile(files, request.path)
                     ELSE request.file.content
        IN  /\ decoded.ok
            /\ decoded.data = bytes
            /\ bytes = <<>> => response.base64 = <<>>
            /\ Len(response.base64) = 4 * ((Len(bytes) + 2) \div 3)
            /\ "size" \in DOMAIN response =>
                  /\ Len(decoded.data) = response.size
                  /\ Len(decoded.data) = Len(request.file.content)

\* C10's case: an upload of a file longer than one base64 group has
\* returned.
C10_Witness ==
    /\ response.status = 200
    /\ "size" \in DOMAIN response
    /\ response.size = 4
    /\ request.file.content = <<255, 0, 128, 1>>

\* C4: every handler turns every internal failure into its own 'operation
\* failed' response, which carries the message of the failure; no failure
\* leaves a handler as an uncaught exception.
C4_FailuresCaughtAtBoundary ==
    /\ response.status = 500 =>
          /\ response # Uncaught
          /\ response.detail[2] # ""
    /\ \A r \in Req :
          h[r].response.status = 500 => h[r].response # Uncaught

(***************************************************************************)
(* create-mask.                                                            *)
(***************************************************************************)
\* An image file: a two-byte signature, then the width and the height.
ImageBytes(w, ht) == <<137, 80, w, ht>>

\* Image.open(io.BytesIO(image_data)): the image's size, or a failure to
\* identify the bytes as an image.
ImageOpen(data) ==
    IF Len(data) = 4 /\ data[1] = 137 /\ data[2] = 80
    THEN [ok |-> TRUE, size |-> <<data[3], data[4]>>]
    ELSE [ok |-> FALSE, msg |-> "UnidentifiedImageError"]

Pixels(size) == (0..(size[1] - 1)) \X (0..(size[2] - 1))

\* Image.new('L', image.size, 0)
ImageNew(size, colour) == [p \in Pixels(size) |-> colour]

\* A fill that leaves the far edge of the box out.
DrawRectangleExclusive(mask, coords, fill, strict) ==
    IF Len(coords) # 4
    THEN [ok |-> FALSE, msg |-> "ValueError"]
    ELSE IF strict /\ (coords[3] < coords[1] \/ coords[4] < coords[2])
    THEN [ok |-> FALSE, msg |-> "ValueError"]
    ELSE [ok |-> TRUE,
          mask |-> [p \in DOMAIN mask |->
                      IF /\ coords[1] <= p[1] /\ p[1] < coords[3]
                         /\ coords[2] <= p[2] /\ p[2] < coords[4]
                      THEN fill ELSE mask[p]]]

\* draw.rectangle(coords, fill=255): the box is [x0, y0, x1, y1], both
\* corners included, clipped to the image. A list that is not four numbers
\* is refused. An inverted box (x1 < x0 or y1 < y0) is refused by the
\* library's newer releases (strict) and filled between its corners by the
\* older ones.
DrawRectangle(mask, coords, fill, strict) ==
    IF Len(coords) # 4
    THEN [ok |-> FALSE, msg |-> "ValueError"]
    ELSE IF strict /\ (coords[3] < coords[1] \/ coords[4] < coords[2])
    THEN [ok |-> FALSE, msg |-> "ValueError"]
    ELSE LET x0 == IF coords[1] <= coords[3] THEN coords[1] ELSE coords[3]
             x1 == IF coords[1] <= coords[3] THEN coords[3] ELSE coords[1]
             y0 == IF coords[2] <= coords[4] THEN coords[2] ELSE coords[4]
             y1 == IF coords[2] <= coords[4] THEN coords[4] ELSE coords[2]
         IN  [ok |-> TRUE,
              mask |-> [p \in DOMAIN mask |->
                          IF x0 <= p[1] /\ p[1] <= x1 /\ y0 <= p[2] /\ p[2] <= y1
                          THEN fill ELSE mask[p]]]

\* for coords in mask_coords: if len(coords) >= 4: draw.rectangle(coords, fill=255)
\* The first failure ends the loop.
RECURSIVE DrawAll(_, _, _, _)
DrawAll(mask, mask_coords, i, strict) ==
    IF i > Len(mask_coords) THEN [ok |-> TRUE, mask |-> mask]
    ELSE IF Len(mask_coords[i]) >= 4
    THEN LET drawn == DrawRectangle(mask, mask_coords[i], 255, strict) IN
         IF drawn.ok THEN DrawAll(drawn.mask, mask_coords, i + 1, strict)
         ELSE drawn
    ELSE DrawAll(mask, mask_coords, i + 1, strict)

\* POST /create-mask. mask_data is the JSON text: well-formed (its value is
\* the list of entries) or not.
create_mask(image_base64, mask_data, strict) ==
    LET prefix == "Failed to create mask"
        image_data == b64decode(image_base64)
        image == IF image_data.ok THEN ImageOpen(image_data.data)
                 ELSE [ok |-> FALSE, msg |-> image_data.msg]
    IN
    /\ request' = [endpoint |-> "create-mask", image_base64 |-> image_base64,
                   mask_data |-> mask_data, strict |-> strict]
    /\ UNCHANGED <<inference, files, images, age_verifications, next_uuid, clock>>
    /\ IF ~image.ok
       THEN response' = Failed(prefix, image.msg)
       ELSE IF ~mask_data.valid
       THEN response' = Failed(prefix, "JSONDecodeError")
       ELSE LET mask == ImageNew(image.size, 0)
                drawn == DrawAll(mask, mask_data.value, 1, strict)
            IN  IF drawn.ok
                THEN response' = [status |-> 200,
                                  mask |-> [format |-> "PNG",
                                            size |-> image.size,
                                            pixels |-> drawn.mask]]
                ELSE response' = Failed(prefix, drawn.msg)

\* The entries the model sends: boxes inside, on the edge of, across and
\* beyond the image, inverted boxes, and entries of fewer and of more than
\* four values.
EntrySamples ==
    { <<0, 0, 0, 0>>, <<0, 0, 1, 1>>, <<1, 0, 1, 2>>, <<-1, -1, 0, 0>>,
      <<1, 1, 5, 5>>, <<4, 4, 6, 6>>, <<1, 1, 0, 0>>, <<2, 0, 1, 0>>,
      <<>>, <<0, 0>>, <<0, 0, 1>>, <<0, 0, 1, 1, 1>> }

RECURSIVE ListsUpTo(_)
ListsUpTo(n) ==
    IF n = 0 THEN {<<>>}
    ELSE LET shorter == ListsUpTo(n - 1) IN
         shorter \cup {Append(s, e) : s \in {x \in shorter : Len(x) = n - 1},
                                      e \in EntrySamples}

MaskImages ==
    {b64encode(ImageBytes(w, ht)) : w \in 1..MaxDim, ht \in 1..MaxDim}
        \cup {b64encode(<<1, 2, 3>>), <<"A">>}

MaskData ==
    [valid : {TRUE}, value : ListsUpTo(MaxRects)]
        \cup {[valid |-> FALSE, value |-> <<>>]}

\* A request is drawn and the handler answers it.
InitMask ==
    /\ credential = "set"
    /\ replicate_client = "Client"
    /\ h = [r \in Req |-> Idle]
    /\ files = {}
    /\ image_edits = <<>>
    /\ images = <<>>
    /\ age_verifications = <<>>
    /\ next_uuid = 0
    /\ clock = 0
    /\ request \in [endpoint : {"create-mask"}, image_base64 : MaskImages,
                    mask_data : MaskData, strict : BOOLEAN]
    /\ response = NoResponse

NextMask ==
    /\ response = NoResponse
    /\ create_mask(request.image_base64, request.mask_data, request.strict)

SpecMask == InitMask /\ [][NextMask]_vars

(***************************************************************************)
(* Properties of create-mask (checked under SpecMask).                     *)
(***************************************************************************)
MaskAnswered == request.endpoint = "create-mask" /\ response # NoResponse

\* The source image of the request decodes, to an image of this size.
SourceDecodes ==
    /\ b64decode(request.image_base64).ok
    /\ ImageOpen(b64decode(request.image_base64).data).ok

SourceSize == ImageOpen(b64decode(request.image_base64).data).size

Entries == request.mask_data.value

InsideEntry(p, e) ==
    e[1] <= p[1] /\ p[1] <= e[3] /\ e[2] <= p[2] /\ p[2] <= e[4]

\* The raster the claim describes: W by H, white exactly inside the
\* coordinate range of an entry of four values, black elsewhere.
RasterAsClaimed ==
    /\ response.status = 200
    /\ response.mask.size = SourceSize
    /\ DOMAIN response.mask.pixels = Pixels(SourceSize)
    /\ \A p \in Pixels(SourceSize) :
          /\ response.mask.pixels[p] \in {0, 255}
          /\ response.mask.pixels[p] = 255 <=>
                \E i \in 1..Len(Entries) :
                    Len(Entries[i]) = 4 /\ InsideEntry(p, Entries[i])

\* C9 as stated: for a decodable source image and any list of rectangle
\* entries the answer is the W by H raster that is white exactly inside the
\* coordinate ranges of the four-value entries.
C9_AnyList ==
    (MaskAnswered /\ SourceDecodes /\ request.mask_data.valid) => RasterAsClaimed

WellFormed(e) ==
    /\ Len(e) <= 4
    /\ Len(e) = 4 => e[1] <= e[3] /\ e[2] <= e[4]

\* C9, amended: for a decodable source image and a list whose entries have
\* at most four values, the four-value ones with x1 <= x2 and y1 <= y2, the
\* answer is the W by H raster that is white exactly inside the (inclusive)
\* coordinate ranges of the four-value entries; shorter entries are skipped
\* and the empty list gives an all-black raster. A list that holds an entry
\* of more than four values is answered with the handler's error.
C9_MaskRasterization ==
    (MaskAnswered /\ SourceDecodes /\ request.mask_data.valid) =>
        /\ (\A i \in 1..Len(Entries) : WellFormed(Entries[i])) => RasterAsClaimed
        /\ (\E i \in 1..Len(Entries) : Len(Entries[i]) > 4) =>
              /\ response.status = 500
              /\ response.detail[1] = "Failed to create mask"

\* C9's case: a 3 by 3 image, a short entry that is skipped and a box that
\* reaches beyond the image; the raster is answered.
C9_Witness ==
    /\ MaskAnswered /\ SourceDecodes
    /\ SourceSize = <<3, 3>>
    /\ Entries = << <<0, 0>>, <<1, 1, 5, 5>> >>
    /\ response.status = 200
    /\ response.mask.pixels[<<2, 2>>] = 255
    /\ response.mask.pixels[<<0, 1>>] = 0

(***************************************************************************)
(* edit-history.                                                           *)
(***************************************************************************)
\* A find that sorts the other way round.
FindSortedAscending(coll, ties) ==
    LET n == Len(coll)
        Before(j, i) ==
            \/ coll[j].timestamp < coll[i].timestamp
            \/ /\ coll[j].timestamp = coll[i].timestamp
               /\ IF ties = "natural" THEN j < i ELSE j > i
        rank == [i \in 1..n |-> Cardinality({j \in 1..n : Before(j, i)})]
    IN  [k \in 1..n |-> coll[CHOOSE i \in 1..n : rank[i] = k - 1]]

\* find().sort("timestamp", -1): the documents by descending timestamp. The
\* store does not say in which order it returns documents of equal
\* timestamp: ties fall in insertion order or against it.
FindSorted(coll, ties) ==
    LET n == Len(coll)
        Before(j, i) ==
            \/ coll[j].timestamp > coll[i].timestamp
            \/ /\ coll[j].timestamp = coll[i].timestamp
               /\ IF ties = "natural" THEN j < i ELSE j > i
        rank == [i \in 1..n |-> Cardinality({j \in 1..n : Before(j, i)})]
    IN  [k \in 1..n |-> coll[CHOOSE i \in 1..n : rank[i] = k - 1]]

\* .limit(n).to_list(n)
Limit(docs, n) == SubSeq(docs, 1, IF Len(docs) < n THEN Len(docs) ELSE n)

\* GET /edit-history
get_edit_history ==
    /\ request' = [endpoint |-> "edit-history"]
    /\ UNCHANGED <<inference, files, images, age_verifications, next_uuid, clock>>
    /\ \E found \in BOOLEAN, ties \in {"natural", "reverse"} :
        IF found
        THEN LET edits == Limit(FindSorted(image_edits, ties), HistoryLimit)
             IN  response' = [status |-> 200, history |-> edits]
        ELSE response' = Uncaught

\* The edit records a run of successful edits leaves in the store, with
\* their timestamps rising, falling, all equal, or in no order at all.
StoredEdit(i, ts) ==
    [id |-> Uuid4(i, 3), operation_type |-> "remove_object",
     prompt |-> "remove the selected object", timestamp |-> ts,
     result_image_base64 |-> <<>>, processing_time |-> Elapsed]

Stamp(order, i) ==
    CASE order = "rising"  -> i
      [] order = "falling" -> 0 - i
      [] order = "equal"   -> 7
      [] OTHER             -> (i * 7) % 11

InitHistory ==
    /\ credential = "set"
    /\ replicate_client = "Client"
    /\ h = [r \in Req |-> Idle]
    /\ files = {}
    /\ \E n \in 0..MaxEdits, order \in {"rising", "falling", "equal", "mixed"} :
          image_edits = [i \in 1..n |-> StoredEdit(i, Stamp(order, i))]
    /\ images = <<>>
    /\ age_verifications = <<>>
    /\ next_uuid = 0
    /\ clock = 0
    /\ request = None
    /\ response = NoResponse

NextHistory == get_edit_history

SpecHistory == InitHistory /\ [][NextHistory]_vars

(***************************************************************************)
(* Properties of edit-history (checked under SpecHistory).                 *)
(***************************************************************************)
HistoryIds(hist) == {hist[k].id : k \in 1..Len(hist)}

====
